---- MODULE Spec2Model ----
(***************************************************************************)
(* A model of build.py, the build script of autd3-rs: one run of the       *)
(* process from start-up (submodule fetch, argument parsing) through the   *)
(* handler of the chosen verb to process exit.                             *)
(*                                                                         *)
(* Strings of the script that are split on spaces by their consumer (the   *)
(* feature string) are sequences of words; a command is a sequence of      *)
(* tokens and every token is a sequence of words, so "--features" is       *)
(* <<"--features">> and "remote soem" is <<"remote", "soem">>.             *)
(* Python's None is the string "None"; an attribute that was never         *)
(* assigned is "Undefined".  An Optional value that must be told apart     *)
(* from a sequence is <<>> (None) or <<v>> (the value v).                  *)
(***************************************************************************)
EXTENDS Integers, Sequences, FiniteSets, TLC

VARIABLES
  pc,         \* position of the process: start, parse, dispatch, returned, done
  platform,   \* platform.system()
  git,        \* shutil.which("git") is not None
  files,      \* the files of the host that is_pcap_available looks for
  args,       \* the parsed command line (argparse.Namespace)
  env,        \* os.environ
  cwd,        \* os.getcwd()
  startCwd,   \* the working directory the process was started in
  env0,       \* os.environ when the handler was entered
  cwd0,       \* os.getcwd() when the handler was entered
  spawned,    \* the subprocess.run calls made so far, in order
  config,     \* the Config the handler constructed
  exc,        \* the exception that ended the handler, "none" if it returned
  retval,     \* the value the handler returned
  exitCode,   \* the exit status of the process, -1 while it runs
  profraw,    \* raw profile files exist under the project root
  profraw0,   \* raw profile files existed when the handler was entered
  manifest,   \* the content of a Cargo.toml the glob of util upver matches
  once,       \* the manifest after the first run of util upver
  runs        \* the number of runs of util upver so far

vars == <<pc, platform, git, files, args, env, cwd, startCwd, env0, cwd0,
          spawned, config, exc, retval, exitCode, profraw, profraw0, manifest,
          once, runs>>

(***************************************************************************)
(* Bounds of the model.                                                    *)
(***************************************************************************)
MaxFeat == 2    \* words in a caller-supplied --features string
MaxLen == 6     \* tokens in a manifest

None == "None"
Undefined == "Undefined"
Unset == "Unset"

Tok(s) == <<s>>

RECURSIVE Toks(_)
Toks(ws) == IF ws = <<>> THEN <<>> ELSE <<Tok(Head(ws))>> \o Toks(Tail(ws))

SeqsUpTo(S, n) == UNION {[1..k -> S] : k \in 0..n}

(***************************************************************************)
(* The host.                                                               *)
(***************************************************************************)
Platforms == {"Windows", "Darwin", "Linux", "FreeBSD"}

PcapPaths == {"System32/wpcap.dll", "System32/Npcap/wpcap.dll",
              "System32/Packet.dll", "System32/Npcap/Packet.dll"}

\* a path is the sequence of its components; a relative path starts with "."
ScriptDir == <<"/", "repo">>
ElseWhere == <<"/", "home">>
Dot == <<".">>

EnvKeys == {"MIRIFLAGS", "RUSTFLAGS", "LLVM_PROFILE_FILE", "PATH"}
Envs == {[k \in EnvKeys |-> IF k = "PATH" THEN "/bin" ELSE Unset],
         [k \in EnvKeys |-> IF k = "PATH" THEN "/bin" ELSE "user"]}

ReturnCodes == {0, 1}

\* os.chdir(path) from the directory d
chdir(d, path) == IF Head(path) = "." THEN d \o Tail(path) ELSE path

\* with_env.__enter__: os.environ[key] = value for every keyword
with_env_enter(e, kwargs) ==
  [k \in EnvKeys |-> IF k \in DOMAIN kwargs THEN kwargs[k] ELSE e[k]]

\* with_env's finally: os.environ.clear(); os.environ.update(saved)
with_env_exit_nc(cur, saved) ==
  [k \in EnvKeys |-> IF saved[k] # Unset THEN saved[k] ELSE cur[k]]

with_env_exit(cur, saved) ==
  LET cleared == [k \in EnvKeys |-> Unset]
  IN  [k \in EnvKeys |-> IF saved[k] # Unset THEN saved[k] ELSE cleared[k]]

\* sys.exit(code): the exit status is the low byte of the code
SysExit_clamped(code) == IF code < 0 THEN 0 ELSE code % 256

SysExit(code) == code % 256

\* an exception no one catches ends the interpreter with status 1
Uncaught == 1

\* CompletedProcess.check_returncode raises iff the return code is nonzero
check_unchecked(rc) == FALSE

check_returncode(rc) == rc # 0

(***************************************************************************)
(* Config                                                                  *)
(***************************************************************************)
NoConfig ==
  [status |-> "none", platform |-> None, release |-> FALSE,
   no_examples |-> FALSE, target |-> Undefined]

HasAttr(a, f) == f \in DOMAIN a

is_windows(cfg) == cfg.platform = "Windows"
is_macos(cfg) == cfg.platform = "Darwin"
is_linux(cfg) == cfg.platform = "Linux"

\* Config.__init__: status "ok" when it returns, else the error it exits with
ConfigInit_swapped(plat, a) ==
  LET self == [NoConfig EXCEPT !.platform = plat]
      rel == IF HasAttr(a, "release") THEN a.release ELSE FALSE
      noex == IF HasAttr(a, "no_examples") THEN a.no_examples ELSE FALSE
      s1 == [self EXCEPT !.release = rel, !.no_examples = noex]
      arch == IF HasAttr(a, "arch") THEN a.arch ELSE None
  IN  IF ~is_windows(self) /\ ~is_macos(self) /\ ~is_linux(self)
      THEN [self EXCEPT !.status = "UnsupportedPlatform"]
      ELSE IF arch # None
      THEN IF is_linux(s1)
           THEN IF arch = "arm32"
                THEN [s1 EXCEPT !.status = "ok", !.target = "aarch64-unknown-linux-gnu"]
                ELSE IF arch = "aarch64"
                THEN [s1 EXCEPT !.status = "ok", !.target = "armv7-unknown-linux-gnueabihf"]
                ELSE [s1 EXCEPT !.status = "UnsupportedArchitecture"]
           ELSE IF is_windows(s1)
           THEN IF arch = "aarch64"
                THEN [s1 EXCEPT !.status = "ok", !.target = "aarch64-pc-windows-msvc"]
                ELSE [s1 EXCEPT !.status = "UnsupportedArchitecture"]
           ELSE [s1 EXCEPT !.status = "ok"]
      ELSE [s1 EXCEPT !.status = "ok", !.target = None]

ConfigInit(plat, a) ==
  LET self == [NoConfig EXCEPT !.platform = plat]
      rel == IF HasAttr(a, "release") THEN a.release ELSE FALSE
      noex == IF HasAttr(a, "no_examples") THEN a.no_examples ELSE FALSE
      s1 == [self EXCEPT !.release = rel, !.no_examples = noex]
      arch == IF HasAttr(a, "arch") THEN a.arch ELSE None
  IN  IF ~is_windows(self) /\ ~is_macos(self) /\ ~is_linux(self)
      THEN [self EXCEPT !.status = "UnsupportedPlatform"]
      ELSE IF arch # None
      THEN IF is_linux(s1)
           THEN IF arch = "arm32"
                THEN [s1 EXCEPT !.status = "ok", !.target = "armv7-unknown-linux-gnueabihf"]
                ELSE IF arch = "aarch64"
                THEN [s1 EXCEPT !.status = "ok", !.target = "aarch64-unknown-linux-gnu"]
                ELSE [s1 EXCEPT !.status = "UnsupportedArchitecture"]
           ELSE IF is_windows(s1)
           THEN IF arch = "aarch64"
                THEN [s1 EXCEPT !.status = "ok", !.target = "aarch64-pc-windows-msvc"]
                ELSE [s1 EXCEPT !.status = "UnsupportedArchitecture"]
           \* macOS: neither branch assigns self.target
           ELSE [s1 EXCEPT !.status = "ok"]
      ELSE [s1 EXCEPT !.status = "ok", !.target = None]

\* Config.cargo_command_base: raised is the AttributeError of reading a
\* target that was never assigned
cargo_command_base(cfg, subcommands) ==
  IF cfg.target = Undefined
  THEN [raised |-> TRUE, command |-> <<>>]
  ELSE LET c1 == IF cfg.target = None
                 THEN <<Tok("cargo")>> \o Toks(subcommands)
                 ELSE (IF is_linux(cfg)
                       THEN <<Tok("cross")>> \o Toks(subcommands)
                       ELSE <<Tok("cargo")>> \o Toks(subcommands))
                      \o <<Tok("--target"), Tok(cfg.target)>>
           c2 == IF cfg.release THEN c1 \o <<Tok("--release")>> ELSE c1
       IN  [raised |-> FALSE, command |-> c2]

\* Config.cargo_build_command(additional_features)
cargo_build_command_nf(cfg, additional_features) ==
  LET base == cargo_command_base(cfg, <<"build">>)
  IN  [raised |-> base.raised,
       command |-> IF base.raised THEN <<>>
                   ELSE base.command \o <<Tok("--features"), <<"remote">>>>]

cargo_build_command(cfg, additional_features) ==
  LET base == cargo_command_base(cfg, <<"build">>)
      features == IF additional_features # <<>>
                  THEN <<"remote">> \o additional_features[1]
                  ELSE <<"remote">>
  IN  [raised |-> base.raised,
       command |-> IF base.raised THEN <<>>
                   ELSE base.command \o <<Tok("--features"), features>>]

\* Config.is_pcap_available
is_pcap_available(cfg, fs) ==
  IF ~is_windows(cfg) THEN TRUE
  ELSE LET wpcap_exists == "System32/wpcap.dll" \in fs
                           /\ "System32/Npcap/wpcap.dll" \in fs
           packet_exists == "System32/Packet.dll" \in fs
                            /\ "System32/Npcap/Packet.dll" \in fs
       IN  wpcap_exists /\ packet_exists

(***************************************************************************)
(* The handlers.  Each gives the outcome of the whole handler: the Config  *)
(* it constructed, the subprocesses it ran, the exception that ended it,   *)
(* and the environment, working directory and files it leaves behind.      *)
(***************************************************************************)
Out(cfg, sp, ex, rv, e, d, pr, mf) ==
  [config |-> cfg, spawns |-> sp, exc |-> ex, retval |-> rv,
   env |-> e, cwd |-> d, profraw |-> pr, manifest |-> mf]

\* subprocess.run(command) in the directory d under the environment e
Run(command, rc, e, d) == [cmd |-> command, rc |-> rc, env |-> e, cwd |-> d]

Raised(rc) == IF check_returncode(rc) THEN "CalledProcessError" ELSE "none"

ExcludeExamples == <<Tok("--workspace"), Tok("--exclude"), Tok("examples")>>

rust_build(a, rc) ==
  LET cfg == ConfigInit(platform, a)
      d1 == chdir(cwd, Dot)
      b == cargo_build_command(cfg, a.features)
      command == b.command \o (IF cfg.no_examples THEN ExcludeExamples ELSE <<>>)
  IN  IF cfg.status # "ok"
      THEN Out(cfg, <<>>, "SystemExit(-1)", None, env, cwd, profraw, manifest)
      ELSE IF b.raised
      THEN Out(cfg, <<>>, "AttributeError", None, env, chdir(d1, cwd), profraw, manifest)
      ELSE Out(cfg, <<Run(command, rc, env, d1)>>, Raised(rc), None,
               env, chdir(d1, cwd), profraw, manifest)

rust_lint(a, rc) ==
  LET cfg == ConfigInit(platform, a)
      d1 == chdir(cwd, Dot)
      b == cargo_build_command(cfg, a.features)
      c1 == [b.command EXCEPT ![2] = Tok("clippy")]
      command == c1 \o (IF cfg.no_examples THEN ExcludeExamples ELSE <<>>)
                    \o <<Tok("--"), Tok("-D"), Tok("warnings")>>
  IN  IF cfg.status # "ok"
      THEN Out(cfg, <<>>, "SystemExit(-1)", None, env, cwd, profraw, manifest)
      ELSE IF b.raised
      THEN Out(cfg, <<>>, "AttributeError", None, env, chdir(d1, cwd), profraw, manifest)
      ELSE Out(cfg, <<Run(command, rc, env, d1)>>, Raised(rc), None,
               env, chdir(d1, cwd), profraw, manifest)

\* rust_test: the exclusion added when the packet-capture probe fails
PcapExclude_inverted(cfg, fs) ==
  IF is_pcap_available(cfg, fs)
  THEN <<Tok("--exclude"), Tok("autd3-link-soem")>> ELSE <<>>

PcapExclude(cfg, fs) ==
  IF ~is_pcap_available(cfg, fs)
  THEN <<Tok("--exclude"), Tok("autd3-link-soem")>> ELSE <<>>

MiriEnv == [MIRIFLAGS |-> "-Zmiri-disable-isolation"]

rust_test(a, rc) ==
  LET cfg == ConfigInit(platform, a)
      d1 == chdir(cwd, Dot)
      e1 == with_env_enter(env, MiriEnv)
      b == IF a.miri
           THEN cargo_command_base(cfg, <<"+nightly", "miri", "nextest", "run">>)
           ELSE cargo_command_base(cfg, <<"nextest", "run">>)
      features == IF a.features # <<>>
                  THEN <<"test-utilities", "remote">> \o a.features[1]
                  ELSE <<"test-utilities", "remote">>
      command == b.command \o <<Tok("--features"), features>> \o ExcludeExamples
                 \o PcapExclude(cfg, files)
                 \o (IF a.miri
                     THEN <<Tok("--exclude"), Tok("autd3"),
                            Tok("--exclude"), Tok("autd3-derive"),
                            Tok("--exclude"), Tok("autd3-modulation-audio-file")>>
                     ELSE <<>>)
  IN  IF cfg.status # "ok"
      THEN Out(cfg, <<>>, "SystemExit(-1)", None, env, cwd, profraw, manifest)
      ELSE IF b.raised
      THEN Out(cfg, <<>>, "AttributeError", None,
               with_env_exit(e1, env), chdir(d1, cwd), profraw, manifest)
      ELSE Out(cfg, <<Run(command, rc, e1, d1)>>, Raised(rc), None,
               with_env_exit(e1, env), chdir(d1, cwd), profraw, manifest)

examples == <<"soem", "remote_soem", "twincat", "remote_twincat",
              "simulator", "lightweight", "lightweight_server">>

InExamples(t) == \E i \in 1..Len(examples) : examples[i] = t

\* the match statement of rust_run
ExampleFeature(t) ==
  IF t = "soem" THEN "soem"
  ELSE IF t = "remote_soem" THEN "remote_soem"
  ELSE IF t = "twincat" THEN "twincat"
  ELSE IF t = "remote_twincat" THEN "remote_twincat"
  ELSE IF t = "simulator" THEN "simulator"
  ELSE IF t = "lightweight" THEN "lightweight"
  ELSE IF t = "lightweight_server" THEN "lightweight-server"
  ELSE None

rust_run(a, rc) ==
  LET features == ExampleFeature(a.target)
      d1 == chdir(cwd, <<".", "examples">>)
      commands == <<Tok("cargo"), Tok("run")>>
                  \o (IF a.release THEN <<Tok("--release")>> ELSE <<>>)
                  \o <<Tok("--bin"), Tok(a.target), Tok("--no-default-features")>>
                  \o (IF features # None
                      THEN <<Tok("--features"), Tok(features)>> ELSE <<>>)
  IN  IF ~InExamples(a.target)
      THEN Out(NoConfig, <<>>, "none", "-1", env, cwd, profraw, manifest)
      ELSE Out(NoConfig, <<Run(commands, rc, env, d1)>>, Raised(rc), None,
               env, chdir(d1, cwd), profraw, manifest)

rust_clear(a, rc) ==
  LET d1 == chdir(cwd, Dot)
  IN  Out(NoConfig, <<Run(<<Tok("cargo"), Tok("clean")>>, rc, env, d1)>>,
          Raised(rc), None, env, chdir(d1, cwd), profraw, manifest)

CovEnv == [RUSTFLAGS |-> "-C instrument-coverage",
           LLVM_PROFILE_FILE |-> "%m-%p.profraw"]

CovBuild == <<Tok("cargo"), Tok("build"), Tok("--features"),
              <<"remote", "test-utilities", "test">>, Tok("--workspace")>>

\* the options of the report generator after "-t <format>"
GrcovFilters ==
  <<Tok("--excl-line"), Tok("<line-exclusion pattern>"),
    Tok("--ignore"), Tok("autd3-derive/**/*"),
    Tok("--ignore"), Tok("autd3-link-*/**/*"),
    Tok("--ignore"), Tok("autd3-protobuf/src/pb/*"),
    Tok("--ignore"), Tok("autd3-protobuf/src/pb/**/*"),
    Tok("--ignore"), Tok("**/soem_bindings/*"),
    Tok("--ignore"), Tok("*/build.rs"),
    Tok("--ignore"), Tok("examples/**/*.rs"),
    Tok("--excl-start"), Tok("GRCOV_EXCL_START"),
    Tok("--excl-stop"), Tok("GRCOV_EXCL_STOP")>>

Grcov(format) ==
  <<Tok("grcov"), Tok("."), Tok("-s"), Tok("."), Tok("--binary-path"),
    Tok("./target/debug"), Tok("--llvm"), Tok("--branch"),
    Tok("--ignore-not-existing"), Tok("-o"), Tok("./coverage"),
    Tok("-t"), Tok(format)>> \o GrcovFilters

\* rcs: the return codes of the three invocations, in order.  An instrumented
\* test run leaves raw profile files behind.
rust_coverage(a, rcs) ==
  LET d1 == chdir(cwd, Dot)
      e1 == with_env_enter(env, CovEnv)
      e2 == with_env_exit(e1, env)
      d2 == chdir(d1, cwd)
      command == CovBuild
      r1 == Run(command, rcs[1], e1, d1)
      command2 == [command EXCEPT ![2] = Tok("test")]
      r2 == Run(command2, rcs[2], e1, d1)
      r3 == Run(Grcov(a.format), rcs[3], e1, d1)
  IN  IF check_returncode(rcs[1])
      THEN Out(NoConfig, <<r1>>, "CalledProcessError", None, e2, d2, profraw, manifest)
      ELSE IF check_returncode(rcs[2])
      THEN Out(NoConfig, <<r1, r2>>, "CalledProcessError", None, e2, d2, TRUE, manifest)
      ELSE IF check_returncode(rcs[3])
      THEN Out(NoConfig, <<r1, r2, r3>>, "CalledProcessError", None, e2, d2, TRUE, manifest)
      ELSE Out(NoConfig, <<r1, r2, r3>>, "none", None, e2, d2, FALSE, manifest)

(***************************************************************************)
(* util upver.  A manifest is a sequence of lexical tokens:                *)
(*   "A"  the text autd3            "K"  the text version =  (with the     *)
(*   "Q"  a double quote                 trailing space, before the quote) *)
(*   "NL" a newline                 "X"  any other text without a quote    *)
(*   "T"  a run of version characters (digits, letters, '.', '-', '+')     *)
(* A target version is a sequence of "T" and "Q".                          *)
(***************************************************************************)
ManifestTokens == {"A", "K", "Q", "X", "NL"}

Min(S) == CHOOSE x \in S : \A y \in S : x <= y
Max(S) == CHOOSE x \in S : \A y \in S : x >= y

\* the positions q >= from of s where (.*?)" can end: s[q] is a quote and
\* no newline lies in from..q-1
Closing(s, from) ==
  {q \in from..Len(s) : s[q] = "Q" /\ \A j \in from..(q - 1) : s[j] # "NL"}

\* the length of the match of  ^version = "(.*?)"  at the head of s, 0 if none
Match1(s) ==
  IF Len(s) >= 3 /\ s[1] = "K" /\ s[2] = "Q" /\ Closing(s, 3) # {}
  THEN Min(Closing(s, 3)) ELSE 0

\* re.sub(r'^version = "(.*?)"', f'version = "{version}"', s, flags=re.MULTILINE);
\* bol: the head of s is at the beginning of a line
re_sub1_string_start(s, version, bol) ==
  IF bol /\ Match1(s) > 0
  THEN <<"K", "Q">> \o version \o <<"Q">> \o SubSeq(s, Match1(s) + 1, Len(s))
  ELSE s

RECURSIVE re_sub1(_, _, _)
re_sub1(s, version, bol) ==
  IF s = <<>> THEN <<>>
  ELSE IF bol /\ Match1(s) > 0
  THEN <<"K", "Q">> \o version \o <<"Q">>
       \o re_sub1(SubSeq(s, Match1(s) + 1, Len(s)), version, FALSE)
  ELSE <<Head(s)>> \o re_sub1(Tail(s), version, Head(s) = "NL")

\* the positions k where the greedy (.*) of the second pattern can end just
\* before: version = " starts at k, a closing quote follows on the line
Fields(s) ==
  {k \in 2..(Len(s) - 2) :
     /\ s[k] = "K" /\ s[k + 1] = "Q"
     /\ \A j \in 2..(k - 1) : s[j] # "NL"
     /\ Closing(s, k + 2) # {}}

\* the match of  ^autd3(.*)version = "(.*?)"  at the head of s:
\* k the start of the field the greedy group stops at, q the end, 0 if none
Match2(s) ==
  IF Len(s) >= 4 /\ s[1] = "A" /\ Fields(s) # {}
  THEN [k |-> Max(Fields(s)), q |-> Min(Closing(s, Max(Fields(s)) + 2))]
  ELSE [k |-> 0, q |-> 0]

\* re.sub(r'^autd3(.*)version = "(.*?)"', f'autd3\\1version = "{version}"', s,
\*        flags=re.MULTILINE)
RECURSIVE re_sub2(_, _, _)
re_sub2(s, version, bol) ==
  IF s = <<>> THEN <<>>
  ELSE IF bol /\ Match2(s).q > 0
  THEN <<"A">> \o SubSeq(s, 2, Match2(s).k - 1)
       \o <<"K", "Q">> \o version \o <<"Q">>
       \o re_sub2(SubSeq(s, Match2(s).q + 1, Len(s)), version, FALSE)
  ELSE <<Head(s)>> \o re_sub2(Tail(s), version, Head(s) = "NL")

\* the content util_update_ver writes back for the content it read
Rewrite(content, version) ==
  re_sub2(re_sub1(content, version, TRUE), version, TRUE)

util_update_ver(a, rc) ==
  LET d1 == chdir(cwd, Dot)
  IN  Out(NoConfig, <<>>, "none", None, env, chdir(d1, cwd), profraw,
          Rewrite(manifest, a.version))

\* command_help: parser.parse_args([command, "--help"]) prints the help of a
\* known command and exits 0; argparse exits 2 on an unknown one
Commands == {"build", "lint", "test", "run", "clear", "cov", "util", "help"}

command_help(a, rc) ==
  Out(NoConfig, <<>>,
      IF a.command \in Commands THEN "SystemExit(0)" ELSE "SystemExit(2)",
      None, env, cwd, profraw, manifest)

(***************************************************************************)
(* The command lines.                                                      *)
(***************************************************************************)
FeatureWords == {"soem", "remote"}
Features == {<<>>} \cup {<<f>> : f \in SeqsUpTo(FeatureWords, MaxFeat)}
Archs == {None, "", "arm32", "aarch64", "x86_64"}
Targets == {examples[i] : i \in 1..Len(examples)} \cup {"foo"}
Versions == {<<"T">>, <<"T", "Q">>}

BuildArgs ==
  [handler : {"rust_build"}, release : BOOLEAN, arch : Archs,
   no_examples : BOOLEAN, features : Features]
LintArgs ==
  [handler : {"rust_lint"}, release : BOOLEAN, features : Features,
   no_examples : BOOLEAN]
TestArgs ==
  [handler : {"rust_test"}, release : BOOLEAN, features : Features,
   miri : BOOLEAN]
RunArgs == [handler : {"rust_run"}, target : Targets, release : BOOLEAN]
ClearArgs == [handler : {"rust_clear"}]
CovArgs == [handler : {"rust_coverage"}, format : {"lcov", "html"}, open : BOOLEAN]
UpverArgs == [handler : {"util_update_ver"}, version : Versions]
HelpArgs == [handler : {"command_help"}, command : {"build", "bogus"}]
\* no verb: the namespace has no handler
NoVerbArgs == {[prog |-> "build.py"]}

CommandLines ==
  BuildArgs \cup LintArgs \cup TestArgs \cup RunArgs \cup ClearArgs
  \cup CovArgs \cup HelpArgs \cup NoVerbArgs
  \cup [handler : {"util_update_ver"}, version : {<<"T">>}]

Hosts ==
  {h \in [platform : Platforms, files : SUBSET PcapPaths] :
     h.platform # "Windows" => h.files = {}}

Init ==
  /\ pc = "start"
  /\ \E h \in Hosts : platform = h.platform /\ files = h.files
  /\ git \in BOOLEAN
  /\ args \in CommandLines
  /\ env \in Envs
  /\ env0 = env
  /\ startCwd = ElseWhere
  /\ cwd = startCwd
  /\ cwd0 = cwd
  /\ spawned = <<>>
  /\ config = NoConfig
  /\ exc = "none"
  /\ retval = None
  /\ exitCode = -1
  /\ profraw \in BOOLEAN
  /\ profraw0 = profraw
  /\ manifest = <<"K", "Q", "X", "Q", "NL", "A", "X", "K", "Q", "X", "Q">>
  /\ once = <<>>
  /\ runs = 0

(***************************************************************************)
(* The steps of the process.                                               *)
(***************************************************************************)
GitFetch == <<Tok("git"), Tok("submodule"), Tok("update"), Tok("--init"),
              Tok("--recursive")>>

\* fetch_submodule, called first by the main block
FetchSubmodule ==
  /\ pc = "start"
  /\ \/ /\ git
        /\ \E rc \in ReturnCodes :
             /\ spawned' = Append(spawned, Run(GitFetch, rc, env, chdir(cwd, ScriptDir)))
             /\ IF check_returncode(rc)
                THEN pc' = "done" /\ exc' = "CalledProcessError" /\ exitCode' = Uncaught
                ELSE pc' = "parse" /\ UNCHANGED <<exc, exitCode>>
     \/ /\ ~git
        /\ pc' = "parse"
        /\ UNCHANGED <<spawned, exc, exitCode>>
  /\ cwd' = chdir(chdir(cwd, ScriptDir), cwd)
  /\ UNCHANGED <<platform, git, files, args, env, startCwd, env0, cwd0, config,
                 retval, profraw, profraw0, manifest, once, runs>>

\* the main block enters working_dir(<script directory>) and parses the
\* command line
ParseArgs ==
  /\ pc = "parse"
  /\ cwd' = chdir(cwd, ScriptDir)
  /\ pc' = "dispatch"
  /\ UNCHANGED <<platform, git, files, args, env, startCwd, env0, cwd0, spawned,
                 config, exc, retval, exitCode, profraw, profraw0, manifest,
                 once, runs>>

\* args.handler(args): the state the handler leaves behind
Apply(out) ==
  /\ pc' = "returned"
  /\ env0' = env
  /\ cwd0' = cwd
  /\ config' = out.config
  /\ spawned' = spawned \o out.spawns
  /\ exc' = out.exc
  /\ retval' = out.retval
  /\ env' = out.env
  /\ cwd' = out.cwd
  /\ profraw0' = profraw
  /\ profraw' = out.profraw
  /\ manifest' = out.manifest
  /\ UNCHANGED <<platform, git, files, args, startCwd, exitCode>>

Dispatch(h) == pc = "dispatch" /\ HasAttr(args, "handler") /\ args.handler = h

RustBuild ==
  /\ Dispatch("rust_build")
  /\ \E rc \in ReturnCodes : Apply(rust_build(args, rc))
  /\ UNCHANGED <<once, runs>>

RustLint ==
  /\ Dispatch("rust_lint")
  /\ \E rc \in ReturnCodes : Apply(rust_lint(args, rc))
  /\ UNCHANGED <<once, runs>>

RustTest ==
  /\ Dispatch("rust_test")
  /\ \E rc \in ReturnCodes : Apply(rust_test(args, rc))
  /\ UNCHANGED <<once, runs>>

RustRun ==
  /\ Dispatch("rust_run")
  /\ \E rc \in ReturnCodes : Apply(rust_run(args, rc))
  /\ UNCHANGED <<once, runs>>

RustClear ==
  /\ Dispatch("rust_clear")
  /\ \E rc \in ReturnCodes : Apply(rust_clear(args, rc))
  /\ UNCHANGED <<once, runs>>

RustCoverage ==
  /\ Dispatch("rust_coverage")
  /\ \E rcs \in [1..3 -> ReturnCodes] : Apply(rust_coverage(args, rcs))
  /\ UNCHANGED <<once, runs>>

UtilUpdateVer ==
  /\ Dispatch("util_update_ver")
  /\ Apply(util_update_ver(args, 0))
  /\ runs' = runs + 1
  /\ once' = IF runs = 0 THEN Rewrite(manifest, args.version) ELSE once

CommandHelp ==
  /\ Dispatch("command_help")
  /\ Apply(command_help(args, 0))
  /\ UNCHANGED <<once, runs>>

\* no handler: parser.print_help()
PrintHelp ==
  /\ pc = "dispatch" /\ ~HasAttr(args, "handler")
  /\ Apply(Out(NoConfig, <<>>, "none", None, env, cwd, profraw, manifest))
  /\ UNCHANGED <<once, runs>>

\* the main block is left (its working_dir restores the start directory) and
\* the interpreter exits; the value the handler returned is not used
ProcessExit ==
  /\ pc = "returned"
  /\ pc' = "done"
  /\ cwd' = chdir(cwd, startCwd)
  /\ exitCode' = IF exc = "none" THEN 0
                 ELSE IF exc = "SystemExit(-1)" THEN SysExit(-1)
                 ELSE IF exc = "SystemExit(0)" THEN SysExit(0)
                 ELSE IF exc = "SystemExit(2)" THEN SysExit(2)
                 ELSE Uncaught
  /\ UNCHANGED <<platform, git, files, args, env, startCwd, env0, cwd0, spawned,
                 config, exc, retval, profraw, profraw0, manifest, once, runs>>

Next ==
  \/ FetchSubmodule
  \/ ParseArgs
  \/ RustBuild
  \/ RustLint
  \/ RustTest
  \/ RustRun
  \/ RustClear
  \/ RustCoverage
  \/ UtilUpdateVer
  \/ CommandHelp
  \/ PrintHelp
  \/ ProcessExit

Spec == Init /\ [][Next]_vars

(***************************************************************************)
(* util upver run twice on the same manifest: the second run starts from   *)
(* what the first one wrote.                                               *)
(***************************************************************************)
Manifests == SeqsUpTo(ManifestTokens, MaxLen)

InitUpver ==
  /\ pc = "dispatch"
  /\ platform = "Linux"
  /\ files = {}
  /\ git = FALSE
  /\ args \in UpverArgs
  /\ env \in {e \in Envs : e["RUSTFLAGS"] = Unset}
  /\ env0 = env
  /\ startCwd = ElseWhere
  /\ cwd = ScriptDir
  /\ cwd0 = cwd
  /\ spawned = <<>>
  /\ config = NoConfig
  /\ exc = "none"
  /\ retval = None
  /\ exitCode = -1
  /\ profraw = FALSE
  /\ profraw0 = profraw
  /\ manifest \in Manifests
  /\ once = <<>>
  /\ runs = 0

\* the script is started again with the same command line and reaches the
\* call of its handler
Again ==
  /\ pc = "returned"
  /\ runs < 2
  /\ pc' = "dispatch"
  /\ UNCHANGED <<platform, git, files, args, env, cwd, startCwd, env0, cwd0,
                 spawned, config, exc, retval, exitCode, profraw, profraw0,
                 manifest, once, runs>>

NextUpver == UtilUpdateVer \/ Again

SpecUpver == InitUpver /\ [][NextUpver]_vars

(***************************************************************************)
(* Vocabulary of the properties.                                           *)
(***************************************************************************)
FetchFailed ==
  spawned # <<>> /\ spawned[1].cmd = GitFetch /\ spawned[1].rc # 0

\* the handler of the verb h was called and is over
Over(h) ==
  /\ pc \in {"returned", "done"}
  /\ ~FetchFailed
  /\ HasAttr(args, "handler")
  /\ args.handler = h

\* the subprocesses the handler ran: all but the submodule fetch of start-up
HSpawns ==
  IF spawned # <<>> /\ spawned[1].cmd = GitFetch THEN Tail(spawned) ELSE spawned

Arch == IF HasAttr(args, "arch") THEN args.arch ELSE None

ConstructsConfig ==
  Over("rust_build") \/ Over("rust_lint") \/ Over("rust_test")

Aborted(kind) ==
  /\ config.status = kind
  /\ exc = "SystemExit(-1)"
  /\ HSpawns = <<>>
  /\ pc = "done" => exitCode # 0

Count(w, ws) == Cardinality({i \in 1..Len(ws) : ws[i] = w})

\* the command holds the tokens a, b one after the other
HasPair(cmd, a, b) ==
  \E i \in 1..(Len(cmd) - 1) : cmd[i] = Tok(a) /\ cmd[i + 1] = Tok(b)

IsPrefix(p, q) == Len(p) <= Len(q) /\ SubSeq(q, 1, Len(p)) = p

(***************************************************************************)
(* C1.  The documented map from (platform, architecture) to the target.    *)
(***************************************************************************)
LinuxTriple(arch) ==
  IF arch = "arm32" THEN "armv7-unknown-linux-gnueabihf"
  ELSE "aarch64-unknown-linux-gnu"

\* C1 as stated: on Linux "" gives no target, "arm32" and "aarch64" give
\* their triples; on Windows "" gives no target and "aarch64" gives its
\* triple; every other architecture string aborts with an
\* unsupported-architecture error, a nonzero exit, no Config and no command.
C1Stated ==
  (ConstructsConfig /\ Arch # None /\ platform \in {"Linux", "Windows"}) =>
    IF Arch = ""
    THEN config.status = "ok" /\ config.target = None
    ELSE IF platform = "Linux" /\ Arch \in {"arm32", "aarch64"}
    THEN config.status = "ok" /\ config.target = LinuxTriple(Arch)
    ELSE IF platform = "Windows" /\ Arch = "aarch64"
    THEN config.status = "ok" /\ config.target = "aarch64-pc-windows-msvc"
    ELSE Aborted("UnsupportedArchitecture")

\* C1 as amended: no target when no architecture flag was given; "arm32" and
\* "aarch64" on Linux and "aarch64" on Windows give their triples; every other
\* architecture string on Linux or Windows, the empty string included, aborts
\* with an unsupported-architecture error, a nonzero exit, no Config and no
\* command.
C1TargetMap ==
  (ConstructsConfig /\ platform \in {"Linux", "Windows"}) =>
    IF Arch = None
    THEN config.status = "ok" /\ config.target = None
    ELSE IF platform = "Linux" /\ Arch \in {"arm32", "aarch64"}
    THEN config.status = "ok" /\ config.target = LinuxTriple(Arch)
    ELSE IF platform = "Windows" /\ Arch = "aarch64"
    THEN config.status = "ok" /\ config.target = "aarch64-pc-windows-msvc"
    ELSE Aborted("UnsupportedArchitecture")

C1Witness ==
  /\ Over("rust_build") /\ pc = "done"
  /\ platform = "Linux" /\ Arch = ""
  /\ config.status = "UnsupportedArchitecture"
  /\ exitCode = 255

(***************************************************************************)
(* C2.  A constructed Config has a target.                                 *)
(***************************************************************************)
\* C2: every Config that construction returns has a defined target, which is
\* None when no architecture flag was given or the host is macOS, and no
\* command built from it fails on a missing target.
C2DefinedTarget ==
  (ConstructsConfig /\ config.status = "ok") =>
    /\ config.target # Undefined
    /\ (Arch = None \/ platform = "Darwin") => config.target = None
    /\ exc # "AttributeError"

(***************************************************************************)
(* C3.  The command base.                                                  *)
(***************************************************************************)
TargetSet == config.target \notin {None, Undefined}

Subcommands ==
  IF args.handler = "rust_build" THEN <<"build">>
  ELSE IF args.miri THEN <<"+nightly", "miri", "nextest", "run">>
  ELSE <<"nextest", "run">>

DocumentedBase ==
  <<Tok(IF TargetSet /\ platform = "Linux" THEN "cross" ELSE "cargo")>>
  \o Toks(Subcommands)
  \o (IF TargetSet THEN <<Tok("--target"), Tok(config.target)>> ELSE <<>>)
  \o (IF config.release THEN <<Tok("--release")>> ELSE <<>>)

\* C3: for every Config the command base is "cross" iff a target is set on
\* Linux, else "cargo"; then the subcommand tokens; then "--target" and the
\* triple iff a target is set; then "--release" iff config.release.
C3CommandBase ==
  ((Over("rust_build") \/ Over("rust_test")) /\ config.status = "ok") =>
    /\ Len(HSpawns) = 1
    /\ IsPrefix(DocumentedBase, HSpawns[1].cmd)
    /\ HSpawns[1].cmd[Len(DocumentedBase) + 1] = Tok("--features")

\* the same, for the Configs whose target was assigned
C3BaseWhenTargetDefined ==
  ((Over("rust_build") \/ Over("rust_test")) /\ config.status = "ok"
      /\ config.target # Undefined) =>
    /\ Len(HSpawns) = 1
    /\ IsPrefix(DocumentedBase, HSpawns[1].cmd)
    /\ HSpawns[1].cmd[Len(DocumentedBase) + 1] = Tok("--features")

(***************************************************************************)
(* C4.  The feature string of build, lint and test.                        *)
(***************************************************************************)
PassesFeatures ==
  /\ Over("rust_build") \/ Over("rust_lint") \/ Over("rust_test")
  /\ HSpawns # <<>>

\* the token after "--features" in the command the handler ran
FeatureString ==
  LET cmd == HSpawns[1].cmd
      i == CHOOSE j \in 1..(Len(cmd) - 1) : cmd[j] = Tok("--features")
  IN  cmd[i + 1]

CallerWords == IF args.features = <<>> THEN <<>> ELSE args.features[1]

OnMiriPath == Over("rust_test") /\ args.miri

CallerWordsKept ==
  \A i \in 1..Len(CallerWords) : Count(CallerWords[i], FeatureString) >= 1

C5Run ==
  Over("rust_run") =>
    IF InExamples(args.target)
    THEN /\ Len(HSpawns) = 1
         /\ \E i \in 1..Len(HSpawns[1].cmd) :
              HSpawns[1].cmd[i] = Tok("--no-default-features")
         /\ HasPair(HSpawns[1].cmd, "--features", ExampleFeature(args.target))
    ELSE /\ HSpawns = <<>>
         /\ pc = "done" => exitCode # 0

\* the part of C5 the code keeps: the invocations
C5Invocations ==
  Over("rust_run") =>
    IF InExamples(args.target)
    THEN /\ Len(HSpawns) = 1
         /\ HasPair(HSpawns[1].cmd, "--bin", args.target)
         /\ HasPair(HSpawns[1].cmd, "--no-default-features", "--features")
         /\ HasPair(HSpawns[1].cmd, "--features", ExampleFeature(args.target))
    ELSE HSpawns = <<>> /\ retval = "-1"

(***************************************************************************)
(* C6.  Scoped overrides.                                                  *)
(***************************************************************************)
Scoped ==
  \/ Over("rust_test") \/ Over("rust_coverage") \/ Over("rust_run")
  \/ Over("rust_build") \/ Over("rust_lint") \/ Over("rust_clear")
  \/ Over("util_update_ver")

\* C6: when a handler that uses a scoped override has returned or aborted,
\* the environment and the working directory are what they were when the
\* handler was entered.
C6ScopesRestored ==
  (Scoped /\ pc = "returned") => env = env0 /\ cwd = cwd0

\* coverage aborted by its failing test step, run under the scoped variables
C6Witness ==
  /\ Over("rust_coverage") /\ pc = "returned"
  /\ exc = "CalledProcessError"
  /\ Len(HSpawns) = 2
  /\ env0["RUSTFLAGS"] = Unset
  /\ HSpawns[2].env["RUSTFLAGS"] = "-C instrument-coverage"
  /\ HSpawns[2].env["LLVM_PROFILE_FILE"] = "%m-%p.profraw"
  /\ env = env0

(***************************************************************************)
(* C7.  The coverage pipeline.                                             *)
(***************************************************************************)
\* C7: coverage runs build, test (the build tokens with the subcommand
\* changed), then the report generator, each only after the one before it
\* ended with 0; the first nonzero exit aborts the rest, the deletion of the
\* raw profile files included, and nothing is run twice.
C7CoverageOrder ==
  (Over("rust_coverage") /\ pc = "returned") =>
    LET h == HSpawns
        n == Len(h)
    IN  /\ n \in 1..3
        /\ h[1].cmd = <<Tok("cargo"), Tok("build"), Tok("--features"),
                        <<"remote", "test-utilities", "test">>, Tok("--workspace")>>
        /\ n >= 2 => h[2].cmd = [h[1].cmd EXCEPT ![2] = Tok("test")]
        /\ n = 3 => h[3].cmd[1] = Tok("grcov")
        /\ \A i \in 1..(n - 1) : h[i].rc = 0
        /\ n < 3 => h[n].rc # 0
        /\ IF h[n].rc # 0
           THEN exc = "CalledProcessError" /\ (profraw0 \/ n >= 2 => profraw)
           ELSE exc = "none" /\ ~profraw

C7Witness ==
  /\ Over("rust_coverage") /\ pc = "returned"
  /\ Len(HSpawns) = 3
  /\ HSpawns[1].rc = 0 /\ HSpawns[2].rc = 0 /\ HSpawns[3].rc = 1
  /\ profraw

(***************************************************************************)
(* C8.  The exclusions of test.                                            *)
(***************************************************************************)
\* C8: without --miri the test command excludes the examples package, and it
\* excludes autd3-link-soem iff the packet-capture probe reports
\* unavailable, which it never does on a host that is not Windows.
C8TestExclusions ==
  (Over("rust_test") /\ ~args.miri /\ config.status = "ok") =>
    /\ Len(HSpawns) = 1
    /\ HasPair(HSpawns[1].cmd, "--exclude", "examples")
    /\ HasPair(HSpawns[1].cmd, "--exclude", "autd3-link-soem")
         <=> ~is_pcap_available(config, files)
    /\ platform # "Windows" =>
         /\ is_pcap_available(config, files)
         /\ ~HasPair(HSpawns[1].cmd, "--exclude", "autd3-link-soem")

C8Witness ==
  /\ Over("rust_test") /\ ~args.miri /\ config.status = "ok"
  /\ platform = "Windows"
  /\ files = {"System32/wpcap.dll", "System32/Npcap/wpcap.dll", "System32/Packet.dll"}
  /\ HasPair(HSpawns[1].cmd, "--exclude", "autd3-link-soem")

(***************************************************************************)
(* C10.  Errors of the platform and of the architecture.                   *)
(***************************************************************************)
EndedUnsupported ==
  /\ pc = "done"
  /\ ConstructsConfig
  /\ config.status \in {"UnsupportedPlatform", "UnsupportedArchitecture"}

\* C10 as stated: a run that ends with an unsupported-platform or
\* unsupported-architecture error ends with a nonzero exit before any
\* subprocess has been spawned since the program started.
C10Stated == EndedUnsupported => exitCode # 0 /\ spawned = <<>>

\* C10 as amended: such a run ends with a nonzero exit before the handler has
\* spawned any subprocess; the only subprocess spawned since the program
\* started is the submodule fetch of start-up, when git is installed.
C10NoHandlerSpawn ==
  EndedUnsupported =>
    /\ exitCode # 0
    /\ HSpawns = <<>>
    /\ spawned = IF git THEN <<Run(GitFetch, 0, env, ScriptDir)>> ELSE <<>>

C10Witness ==
  /\ EndedUnsupported
  /\ config.status = "UnsupportedPlatform"
  /\ git /\ Len(spawned) = 1
  /\ exitCode = 255

(***************************************************************************)
(* C9.  util upver, under SpecUpver.                                       *)
(***************************************************************************)
LineStarts(m) == {p \in 1..Len(m) : p = 1 \/ m[p - 1] = "NL"}

From(m, p) == SubSeq(m, p, Len(m))

\* what the top-level version field at the head of the line s reads
TopLevelValue(s) == SubSeq(s, 3, Match1(s) - 1)

\* what the version field of the autd3 entry at the head of the line s reads
\* (the last field of the line, when the line holds several)
DependencyValue(s) == SubSeq(s, Match2(s).k + 2, Match2(s).q - 1)

FieldsRead(m, version) ==
  \A p \in LineStarts(m) :
    /\ Match1(From(m, p)) > 0 => TopLevelValue(From(m, p)) = version
    /\ Match2(From(m, p)).q > 0 => DependencyValue(From(m, p)) = version

\* a version of version characters only: no double quote in it
Plain(version) == \A i \in 1..Len(version) : version[i] = "T"

\* C9 as stated: for every manifest and every target version, rewriting twice
\* gives what rewriting once gives, and after one rewrite every line-initial
\* top-level version field and every line-initial autd3 entry that has a
\* version field reads the target version.
C9Stated ==
  /\ runs = 2 => manifest = once
  /\ runs >= 1 => FieldsRead(manifest, args.version)

\* C9 as amended: the same for every manifest and every target version made
\* of version characters only (letters, digits, '.', '-', '+': no double
\* quote, backslash or white space); of several version fields on the line of
\* an autd3 entry, the last one is the field that reads the target version.
C9Idempotent ==
  Plain(args.version) =>
    /\ runs = 2 => manifest = once
    /\ runs >= 1 => FieldsRead(manifest, args.version)

C9Witness ==
  /\ runs = 2
  /\ args.version = <<"T">>
  /\ once = <<"A", "X", "K", "Q", "T", "Q">>
  /\ manifest = once

\* a top-level field on the second line is rewritten as well
C9WitnessSecondLine ==
  /\ runs = 2
  /\ args.version = <<"T">>
  /\ manifest = <<"X", "NL", "K", "Q", "T", "Q">>

====
